---- MODULE Spec2Model ----
(***************************************************************************)
(* A model of the geometric frame algebra of compas:                       *)
(*   src/src/compas/geometry/primitives/frame.py      (class Frame)        *)
(*   src/src/compas/geometry/bestfit/bestfit_numpy.py (best-fit)           *)
(*                                                                         *)
(* Numbers.  Coordinates are exact rationals <<n, d>> (d > 0, lowest       *)
(* terms), so that "unit length" and "perpendicular" are exact statements  *)
(* and not statements up to a rounding error.  A square root is taken      *)
(* exactly; inputs whose length is irrational are outside the input sets   *)
(* (see Exact).                                                            *)
(***************************************************************************)
EXTENDS Integers, Sequences, FiniteSets, TLC

(***************************************************************************)
(* Exact rational arithmetic                                               *)
(***************************************************************************)
Abs(a) == IF a < 0 THEN -a ELSE a

RECURSIVE Gcd(_, _)
Gcd(a, b) == IF b = 0 THEN a ELSE Gcd(b, a % b)

\* the rational n/d in lowest terms with a positive denominator (d # 0)
Reduce(n, d, g) == IF d < 0 THEN <<(-n) \div g, (-d) \div g>> ELSE <<n \div g, d \div g>>
Q(n, d) == Reduce(n, d, Gcd(Abs(n), Abs(d)))

I(a) == <<a, 1>>
Zero == I(0)
One == I(1)

Lcm(a, b) == (a \div Gcd(a, b)) * b
AddOver(p, q, l) == Q(p[1] * (l \div p[2]) + q[1] * (l \div q[2]), l)
RAdd(p, q) == AddOver(p, q, Lcm(p[2], q[2]))
RNeg(p) == <<-p[1], p[2]>>
RSub(p, q) == RAdd(p, RNeg(q))
RMul(p, q) == Q(p[1] * q[1], p[2] * q[2])
RDiv(p, q) == Q(p[1] * q[2], p[2] * q[1])
RLt(p, q) == p[1] * q[2] < q[1] * p[2]
RAbs(p) == <<Abs(p[1]), p[2]>>

\* the integer square root of a natural number that is a perfect square,
\* -1 for any other number
RECURSIVE SqrtSearch(_, _, _)
SqrtSearch(n, lo, hi) ==
    IF lo > hi THEN -1
    ELSE IF ((lo + hi) \div 2) * ((lo + hi) \div 2) = n THEN (lo + hi) \div 2
    ELSE IF ((lo + hi) \div 2) * ((lo + hi) \div 2) < n
         THEN SqrtSearch(n, ((lo + hi) \div 2) + 1, hi)
    ELSE SqrtSearch(n, lo, ((lo + hi) \div 2) - 1)
ISqrt(n) == SqrtSearch(n, 0, IF n < 46340 THEN n ELSE 46340)

IsSquare(p) == p[1] >= 0 /\ ISqrt(p[1]) >= 0 /\ ISqrt(p[2]) >= 0
RSqrt(p) == <<ISqrt(p[1]), ISqrt(p[2])>>

(***************************************************************************)
(* Vectors and points: three coordinates                                   *)
(***************************************************************************)
IV(a, b, c) == <<I(a), I(b), I(c)>>
ZeroVec == IV(0, 0, 0)

\* compas.geometry.basic
subtract_vectors(u, v) == <<RSub(u[1], v[1]), RSub(u[2], v[2]), RSub(u[3], v[3])>>
add_vectors(u, v) == <<RAdd(u[1], v[1]), RAdd(u[2], v[2]), RAdd(u[3], v[3])>>
dot_vectors(u, v) ==
    RAdd(RAdd(RMul(u[1], v[1]), RMul(u[2], v[2])), RMul(u[3], v[3]))
cross_vectors(u, v) ==
    <<RSub(RMul(u[2], v[3]), RMul(u[3], v[2])),
      RSub(RMul(u[3], v[1]), RMul(u[1], v[3])),
      RSub(RMul(u[1], v[2]), RMul(u[2], v[1]))>>
scale_vector(u, s) == <<RMul(u[1], s), RMul(u[2], s), RMul(u[3], s)>>

LengthSq(u) == dot_vectors(u, u)
IsUnit(u) == LengthSq(u) = One
Perp(u, v) == dot_vectors(u, v) = Zero
Parallel(u, v) == cross_vectors(u, v) = ZeroVec

(***************************************************************************)
(* Objects.  A Frame object holds references to a Point and two Vector     *)
(* objects; the objects live in a heap so that sharing is observable.      *)
(***************************************************************************)
MaxFrames == 2
MaxObj == 3 * MaxFrames

FrameIds == 1..MaxFrames
ObjIds == 1..MaxObj
NoObj == <<>>
\* the fields right after `self._point = None` etc.: 0 stands for None
NoFrame == [point |-> 0, xaxis |-> 0, yaxis |-> 0]
Fields == {"point", "xaxis", "yaxis"}

VARIABLES fh, vh, G, exc, op, args, ret, nops
vars == <<fh, vh, G, exc, op, args, ret, nops>>

\* the Frame under test is the frame object 1
F == 1

\* the heap, the pending exception and the frame object a factory returns
Mach(h, v, e) == [fh |-> h, vh |-> v, exc |-> e, new |-> 0]

\* The cell of the object that a setter of the frame object f creates for a
\* field.  The new object takes the cell of the object it replaces: every
\* setter builds its own Point(*point) or Vector(*vector), so no other frame
\* refers to the replaced one.
FieldIndex(field) == IF field = "point" THEN 1 ELSE IF field = "xaxis" THEN 2 ELSE 3
Cell(f, field) == 3 * (f - 1) + FieldIndex(field)
Cells(f) == {Cell(f, field) : field \in Fields}

\* the frame object f and the objects it created are reclaimed
Free(m, f) ==
    [m EXCEPT !.fh[f] = NoFrame,
              !.vh = [i \in ObjIds |-> IF i \in Cells(f) THEN NoObj ELSE m.vh[i]]]

Raise(m, e) == [m EXCEPT !.exc = e]

(***************************************************************************)
(* Vector.unitize, in place on a value                                     *)
(***************************************************************************)
\* "Inexact" marks a length that is not rational: such an input is outside
\* the input sets of the model (the actions exclude it, see Exact)
Unitized(v, l2) ==
    IF l2 = Zero THEN [exc |-> "DegenerateInputError", v |-> v]
    ELSE IF ~IsSquare(l2) THEN [exc |-> "Inexact", v |-> v]
    ELSE [exc |-> "none", v |-> scale_vector(v, RDiv(One, RSqrt(l2)))]
unitize(v) == Unitized(v, LengthSq(v))

(***************************************************************************)
(* Frame: descriptors                                                      *)
(***************************************************************************)
\* Frame.point (getter), Frame.xaxis, Frame.yaxis: the values
point(m, f) == m.vh[m.fh[f].point]
xaxis(m, f) == m.vh[m.fh[f].xaxis]
yaxis(m, f) == m.vh[m.fh[f].yaxis]

\* the field of the frame object f refers to a new object with the value val
Store(m, f, field, val) ==
    [m EXCEPT !.vh[Cell(f, field)] = val, !.fh[f][field] = Cell(f, field)]

\* @point.setter
SetPoint(m, f, p) ==
    IF m.exc # "none" THEN m
    ELSE Store(m, f, "point", p)

\* @xaxis.setter
SetXaxis(m, f, vector) ==
    LET Set(x) ==
            IF x.exc # "none" THEN Raise(m, x.exc)
            ELSE Store(m, f, "xaxis", x.v)
    IN  IF m.exc # "none" THEN m ELSE Set(unitize(vector))

\* a yaxis setter that stores the normalized vector as it is given
SetYaxis_NoGramSchmidt(m, f, vector) ==
    LET SetY(y) ==
            IF y.exc # "none" THEN Raise(m, y.exc)
            ELSE Store(m, f, "yaxis", y.v)
    IN  IF m.exc # "none" THEN m ELSE SetY(unitize(vector))

\* a yaxis setter that normalizes neither the vector nor the zaxis
SetYaxis_NoUnitize(m, f, vector) ==
    IF m.exc # "none" THEN m
    ELSE Store(m, f, "yaxis",
               cross_vectors(cross_vectors(xaxis(m, f), vector), xaxis(m, f)))

\* @yaxis.setter
SetYaxis(m, f, vector) ==
    LET SetZ(z, x) ==
            IF z.exc # "none" THEN Raise(m, z.exc)
            ELSE Store(m, f, "yaxis", cross_vectors(z.v, x))
        SetY(y, x) ==
            IF y.exc # "none" THEN Raise(m, y.exc)
            ELSE SetZ(unitize(cross_vectors(x, y.v)), x)
    IN  IF m.exc # "none" THEN m ELSE SetY(unitize(vector), xaxis(m, f))

\* Frame.data (getter) and to_data
data(m, f) == [point |-> point(m, f), xaxis |-> xaxis(m, f), yaxis |-> yaxis(m, f)]
to_data(m, f) == data(m, f)

\* a data setter that assigns the yaxis before the xaxis
SetData_YaxisFirst(m, f, d) ==
    SetXaxis(SetYaxis(SetPoint(m, f, d.point), f, d.yaxis), f, d.xaxis)

\* @data.setter
SetData(m, f, d) == SetYaxis(SetXaxis(SetPoint(m, f, d.point), f, d.xaxis), f, d.yaxis)

\* Frame.normal and Frame.zaxis
normal(m, f) == cross_vectors(xaxis(m, f), yaxis(m, f))
zaxis(m, f) == normal(m, f)

\* Frame.__init__ on the frame object f
FrameInit(m, f, p, x, y) ==
    SetYaxis(SetXaxis(SetPoint([m EXCEPT !.fh[f] = NoFrame], f, p), f, x), f, y)

\* cls(point, xaxis, yaxis): a new frame object
NewFrameId(h) == CHOOSE g \in FrameIds : h[g] = NoFrame /\ \A j \in 1..(g - 1) : h[j] # NoFrame
New(m, p, x, y) ==
    LET Build(g) == [FrameInit(m, g, p, x, y) EXCEPT !.new = g]
    IN  IF m.exc # "none" THEN m ELSE Build(NewFrameId(m.fh))

\* Frame.__getitem__: the object the key reads, 0 with a KeyError
GetItem(m, f, key) ==
    IF key = 0 THEN [exc |-> "none", id |-> m.fh[f].point]
    ELSE IF key = 1 THEN [exc |-> "none", id |-> m.fh[f].xaxis]
    ELSE IF key = 2 THEN [exc |-> "none", id |-> m.fh[f].yaxis]
    ELSE [exc |-> "KeyError", id |-> 0]

\* Frame.__setitem__: key 2 sets the yaxis and falls through to the raise
SetItem(m, f, key, value) ==
    LET Fall(m2) == IF m2.exc # "none" THEN m2 ELSE Raise(m2, "KeyError")
    IN  IF key = 0 THEN SetPoint(m, f, value)
        ELSE IF key = 1 THEN SetXaxis(m, f, value)
        ELSE IF key = 2 THEN Fall(SetYaxis(m, f, value))
        ELSE Raise(m, "KeyError")

(***************************************************************************)
(* Transformations: 4x4 matrices, a sequence of four rows                  *)
(***************************************************************************)
Row4(a, b, c, d) == <<a, b, c, d>>
LastRow == Row4(Zero, Zero, Zero, One)

\* the matrix with the columns x, y, z and the translation t
MatrixFromColumns(x, y, z, t) ==
    <<Row4(x[1], y[1], z[1], t[1]),
      Row4(x[2], y[2], z[2], t[2]),
      Row4(x[3], y[3], z[3], t[3]),
      LastRow>>

Column(M, j) == <<M[1][j], M[2][j], M[3][j]>>

\* Transformation.__mul__
MatMul(A, B) ==
    [i \in 1..4 |->
        [j \in 1..4 |->
            RAdd(RAdd(RMul(A[i][1], B[1][j]), RMul(A[i][2], B[2][j])),
                 RAdd(RMul(A[i][3], B[3][j]), RMul(A[i][4], B[4][j])))]]

\* matrix_from_frame / Transformation.from_frame: translation = origin,
\* rotation = the basis vectors of the frame
matrix_from_frame(m, f) ==
    MatrixFromColumns(xaxis(m, f), yaxis(m, f), zaxis(m, f), point(m, f))

\* matrix_from_basis_vectors: orthonormalize, the xaxis is authoritative
matrix_from_basis_vectors(x, y) ==
    LET Z(xu, zu) ==
            IF zu.exc # "none" THEN [exc |-> zu.exc, M |-> <<>>]
            ELSE [exc |-> "none",
                  M |-> MatrixFromColumns(xu.v, cross_vectors(zu.v, xu.v), zu.v, ZeroVec)]
        XY(xu, yu) ==
            IF xu.exc # "none" THEN [exc |-> xu.exc, M |-> <<>>]
            ELSE IF yu.exc # "none" THEN [exc |-> yu.exc, M |-> <<>>]
            ELSE Z(xu, unitize(cross_vectors(xu.v, yu.v)))
    IN  XY(unitize(x), unitize(y))

\* Transformation.translation and Transformation.basis_vectors
translation(M) == Column(M, 4)
basis_vectors(M) == <<Column(M, 1), Column(M, 2)>>

\* the determinant of the upper-left 3x3 block
Det3(M) == dot_vectors(Column(M, 1), cross_vectors(Column(M, 2), Column(M, 3)))

\* inverse of an affine matrix [A t; 0 1]: [A^-1, -A^-1 t; 0 1], with the
\* rows of A^-1 being the cross products of the columns of A over det A
InverseRows(r1, r2, r3, t) ==
    <<Row4(r1[1], r1[2], r1[3], RNeg(dot_vectors(r1, t))),
      Row4(r2[1], r2[2], r2[3], RNeg(dot_vectors(r2, t))),
      Row4(r3[1], r3[2], r3[3], RNeg(dot_vectors(r3, t))),
      LastRow>>
InverseOver(a, b, c, t, s) ==
    InverseRows(scale_vector(cross_vectors(b, c), s),
                scale_vector(cross_vectors(c, a), s),
                scale_vector(cross_vectors(a, b), s), t)
inverse(M) ==
    InverseOver(Column(M, 1), Column(M, 2), Column(M, 3), translation(M),
                RDiv(One, Det3(M)))

\* Point.transform: the point as a homogeneous column with w = 1
transform_point(M, p) ==
    [i \in 1..3 |->
        RAdd(RAdd(RMul(M[i][1], p[1]), RMul(M[i][2], p[2])),
             RAdd(RMul(M[i][3], p[3]), M[i][4]))]

(***************************************************************************)
(* Frame: factories and methods.  f is self                                *)
(***************************************************************************)
\* Frame.worldXY
worldXY(m) == New(m, IV(0, 0, 0), IV(1, 0, 0), IV(0, 1, 0))

\* Frame.from_points
from_points(m, p, point_xaxis, point_xyplane) ==
    LET Make(xa, xyvec) ==
            New(m, p, xa, cross_vectors(cross_vectors(xa, xyvec), xa))
    IN  Make(subtract_vectors(point_xaxis, p), subtract_vectors(point_xyplane, p))

\* Frame.from_data
from_data(m, d) ==
    LET Assign(frame) == SetData(frame, frame.new, d) IN Assign(worldXY(m))

\* Frame.copy
copy(m, f) == New(m, point(m, f), xaxis(m, f), yaxis(m, f))

\* a transform that composes the transformation on the right of the frame
transform_ComposeRight(m, f, T) ==
    LET Assign(M) ==
            SetYaxis(SetXaxis(SetPoint(m, f, translation(M)), f, basis_vectors(M)[1]),
                     f, basis_vectors(M)[2])
    IN  IF m.exc # "none" THEN m ELSE Assign(MatMul(matrix_from_frame(m, f), T))

\* Frame.transform
transform(m, f, T) ==
    LET Assign(M) ==
            SetYaxis(SetXaxis(SetPoint(m, f, translation(M)), f, basis_vectors(M)[1]),
                     f, basis_vectors(M)[2])
    IN  IF m.exc # "none" THEN m ELSE Assign(MatMul(T, matrix_from_frame(m, f)))

\* a transformed that transforms self and returns it
transformed_NoCopy(m, f, T) ==
    IF m.exc # "none" THEN m ELSE [transform(m, f, T) EXCEPT !.new = f]

\* Frame.transformed
transformed(m, f, T) ==
    LET Apply(frame) == transform(frame, frame.new, T) IN Apply(copy(m, f))

\* Frame.represent_point_in_local_coordinates
represent_point_in_local_coordinates(m, f, p) ==
    LET Local(pt, B) ==
            IF B.exc # "none" THEN [exc |-> B.exc, v |-> pt]
            ELSE [exc |-> "none", v |-> transform_point(inverse(B.M), pt)]
    IN  Local(subtract_vectors(p, point(m, f)),
              matrix_from_basis_vectors(xaxis(m, f), yaxis(m, f)))

\* Frame.represent_point_in_global_coordinates
represent_point_in_global_coordinates(m, f, p) ==
    [exc |-> "none", v |-> transform_point(matrix_from_frame(m, f), p)]

(***************************************************************************)
(* The inputs                                                              *)
(***************************************************************************)
MaxOps == 3

Points == {IV(0, 0, 0), IV(1, 2, 3)}
Vecs == {IV(1, 0, 0), IV(0, 1, 0), IV(0, 0, 1), IV(0, -2, 0), IV(3, 4, 0),
         IV(4, 3, 0), IV(0, 0, 0)}
DataIn == [point : {IV(1, 2, 3)},
           xaxis : {IV(0, 1, 0), IV(3, 4, 0), IV(0, 0, 0)},
           yaxis : {IV(0, 3, 0), IV(0, 0, 2)}]
Keys == 0..3
ItemValues == {IV(0, 0, 1), IV(-4, 3, 0)}

\* rigid transformations: a rotation (columns x, y, z) and a translation
Transforms ==
    {MatrixFromColumns(IV(1, 0, 0), IV(0, 1, 0), IV(0, 0, 1), IV(1, 0, 0)),
     MatrixFromColumns(IV(0, 1, 0), IV(-1, 0, 0), IV(0, 0, 1), IV(0, 0, 0)),
     MatrixFromColumns(IV(1, 0, 0), IV(0, 0, 1), IV(0, -1, 0), IV(0, 0, 1))}

(***************************************************************************)
(* The state machine: a program that builds the frame F, changes it, and   *)
(* then derives a second frame G from it and changes G                     *)
(***************************************************************************)
Cur == Mach(fh, vh, "none")
Empty == Mach([f \in FrameIds |-> NoFrame], [i \in ObjIds |-> NoObj], "none")

\* the input is one the exact arithmetic covers
Exact(m) == m.exc # "Inexact"

\* the end of a call: the heap, the exception and the call's record
Done(m, o, a, r) ==
    /\ Exact(m)
    /\ fh' = m.fh
    /\ vh' = m.vh
    /\ exc' = m.exc
    /\ op' = o
    /\ args' = a
    /\ ret' = r
    /\ nops' = nops + 1

Constructed(m, o, x, y) ==
    /\ m.exc = "none"
    /\ fh = m.fh
    /\ vh = m.vh
    /\ G = 0
    /\ exc = "none"
    /\ op = "Frame"
    /\ args = <<o, x, y>>
    /\ ret = <<>>
    /\ nops = 0

\* F = Frame(o, x, y)
Init ==
    \E o \in Points, x \in Vecs, y \in Vecs :
        Constructed(FrameInit(Empty, F, o, x, y), o, x, y)

AssignPoint ==
    \E v \in Points :
        /\ nops < MaxOps
        /\ G = 0
        /\ Done(SetPoint(Cur, F, v), "point=", <<>>, <<>>)
        /\ UNCHANGED G

AssignXaxis ==
    \E v \in Vecs :
        /\ nops < MaxOps
        /\ G = 0
        /\ Done(SetXaxis(Cur, F, v), "xaxis=", <<>>, <<>>)
        /\ UNCHANGED G

AssignYaxis ==
    \E v \in Vecs :
        /\ nops < MaxOps
        /\ G = 0
        /\ Done(SetYaxis(Cur, F, v), "yaxis=", <<>>, <<>>)
        /\ UNCHANGED G

AssignData ==
    \E d \in DataIn :
        /\ nops < MaxOps
        /\ G = 0
        /\ Done(SetData(Cur, F, d), "data=", <<>>, <<>>)
        /\ UNCHANGED G

AssignItem ==
    \E k \in Keys, v \in ItemValues :
        /\ nops < MaxOps
        /\ G = 0
        /\ Done(SetItem(Cur, F, k, v), "setitem", <<k, v>>, <<>>)
        /\ UNCHANGED G

Transform ==
    \E T \in Transforms :
        /\ nops < MaxOps
        /\ G = 0
        /\ Done(transform(Cur, F, T), "transform", <<T>>, <<>>)
        /\ UNCHANGED G

\* the variable G is rebound: the frame object it referred to is dropped
DropG(m) == IF G = 2 THEN Free(m, 2) ELSE m

\* the end of a call that returns a new frame: G refers to it; when the call
\* raised, the frame object under construction is dropped with it
Returned(m, g, o, a, r) ==
    /\ Done(IF g = 0 /\ m.new \notin {0, F} THEN Free(m, m.new) ELSE m, o, a, r)
    /\ G' = g
DoneNew(m, o, a, r) == Returned(m, IF m.exc = "none" THEN m.new ELSE 0, o, a, r)

\* g = F.transformed(T)
Transformed ==
    \E T \in Transforms :
        /\ nops < MaxOps
        /\ G = 0
        /\ DoneNew(transformed(DropG(Cur), F, T), "transformed", <<T>>, <<>>)

\* g = Frame.from_data(F.to_data())
FromData ==
    /\ nops < MaxOps
    /\ G = 0
    /\ DoneNew(from_data(DropG(Cur), to_data(Cur, F)), "from_data", <<>>,
               <<to_data(Cur, F)>>)

\* g.point.transform(T): the Point object of G is changed in place
MutatePoint ==
    \E T \in Transforms :
        /\ nops < MaxOps
        /\ G # 0
        /\ Done([Cur EXCEPT !.vh[fh[G].point] = transform_point(T, point(Cur, G))],
                "g.point.transform", <<>>, <<>>)
        /\ UNCHANGED G

\* g.transform(T)
TransformG ==
    \E T \in Transforms :
        /\ nops < MaxOps
        /\ G # 0
        /\ Done(transform(Cur, G, T), "g.transform", <<>>, <<>>)
        /\ UNCHANGED G

\* F.represent_point_in_global_coordinates(
\*     F.represent_point_in_local_coordinates(p))
RoundTrip(p, l) ==
    /\ l.exc # "Inexact"
    /\ Done(Raise(Cur, l.exc), "roundtrip", <<p>>,
            IF l.exc = "none"
            THEN <<represent_point_in_global_coordinates(Cur, F, l.v).v>>
            ELSE <<>>)
RoundTripPoint ==
    \E p \in Points :
        /\ nops < MaxOps
        /\ RoundTrip(p, represent_point_in_local_coordinates(Cur, F, p))
        /\ UNCHANGED G

Next ==
    \/ AssignPoint
    \/ AssignXaxis
    \/ AssignYaxis
    \/ AssignData
    \/ AssignItem
    \/ Transform
    \/ Transformed
    \/ FromData
    \/ MutatePoint
    \/ TransformG
    \/ RoundTripPoint

Spec == Init /\ [][Next]_vars

\* the axes of the frame are unit vectors and perpendicular
Orthonormal(m, f) ==
    /\ IsUnit(xaxis(m, f))
    /\ IsUnit(yaxis(m, f))
    /\ Perp(xaxis(m, f), yaxis(m, f))

(***************************************************************************)
(* Frame.from_points as a function of its three points: a program that     *)
(* holds F = Frame.worldXY() and calls the factory once                    *)
(***************************************************************************)
PointsIn == {IV(0, 0, 0), IV(2, 0, 0), IV(4, 0, 0), IV(1, 3, 0), IV(2, 0, 5)}

InitPoints ==
    \E p1 \in PointsIn, p2 \in PointsIn, p3 \in PointsIn :
        /\ fh = worldXY(Empty).fh
        /\ vh = worldXY(Empty).vh
        /\ G = 0
        /\ exc = "none"
        /\ op = "input"
        /\ args = <<p1, p2, p3>>
        /\ ret = <<>>
        /\ nops = 0

\* g = Frame.from_points(p1, p2, p3)
FromPoints ==
    /\ op = "input"
    /\ DoneNew(from_points(Cur, args[1], args[2], args[3]), "from_points", args, <<>>)

NextPoints == FromPoints

SpecPoints == InitPoints /\ [][NextPoints]_vars

(***************************************************************************)
(* The claims about Frame                                                  *)
(***************************************************************************)
FP == point(Cur, F)
FX == xaxis(Cur, F)
FY == yaxis(Cur, F)
FData == data(Cur, F)
Positive(q) == RLt(Zero, q)
Refs(f) == {fh[f].point, fh[f].xaxis, fh[f].yaxis} \ {0}

\* C1: in every state reached from a constructed Frame by assignments to
\* point, xaxis and yaxis (directly, through the data setter or by index),
\* the xaxis and the yaxis are unit vectors and perpendicular.
C1_AxesOrthonormal == Orthonormal(Cur, F)

\* C2: Frame(o, x, y) with non-zero, non-parallel x and y stores o unchanged,
\* x normalized (same direction as x, unit length) and as yaxis the unit
\* vector of span(x, y) perpendicular to the xaxis that has a positive dot
\* product with y; orthonormal x, y are stored as they are, with zaxis = x
\* cross y.
C2_Constructor ==
    op = "Frame" =>
        /\ FP = args[1]
        /\ IsUnit(FX)
        /\ Parallel(FX, args[2])
        /\ Positive(dot_vectors(FX, args[2]))
        /\ IsUnit(FY)
        /\ Perp(FX, FY)
        /\ Perp(FY, cross_vectors(args[2], args[3]))
        /\ Positive(dot_vectors(FY, args[3]))
        /\ (Orthonormal([vh |-> <<args[2], args[3]>>,
                         fh |-> <<[xaxis |-> 1, yaxis |-> 2]>>], 1)
               => /\ FX = args[2]
                  /\ FY = args[3]
                  /\ zaxis(Cur, F) = cross_vectors(args[2], args[3]))

C2_Witness ==
    /\ op = "Frame"
    /\ ~Perp(args[2], args[3])
    /\ ~IsUnit(args[2])
    /\ FY # (unitize(args[3])).v

\* C3: a transform(T) call with a rigid T on a frame with orthonormal axes
\* leaves a frame with unit, perpendicular axes and a unit normal, whose point
\* and axes are the translation and the basis vectors of T * (the frame's
\* matrix); so it is after every chain of such calls.
C3_Expected(T) == MatMul(T, matrix_from_frame(Cur, F))
C3_TransformKeepsFrame ==
    [][(op' = "transform" /\ Orthonormal(Cur, F))
         => /\ exc' = "none"
            /\ IsUnit(FX')
            /\ IsUnit(FY')
            /\ Perp(FX', FY')
            /\ IsUnit(cross_vectors(FX', FY'))
            /\ FP' = translation(C3_Expected(args'[1]))
            /\ FX' = basis_vectors(C3_Expected(args'[1]))[1]
            /\ FY' = basis_vectors(C3_Expected(args'[1]))[2]]_vars

C3_Witness ==
    /\ op = "transform"
    /\ exc = "none"
    /\ nops >= 2
    /\ Orthonormal(Cur, F)
    /\ FX[1][2] = 5
    /\ FP # translation(args[1])

\* C4: F.represent_point_in_global_coordinates(
\* F.represent_point_in_local_coordinates(p)) equals p for every Frame F and
\* every point p.
C4_PointRoundTrip == op = "roundtrip" => exc = "none" /\ ret = <<args[1]>>

\* C6: to_data() has exactly the keys point, xaxis and yaxis, each of three
\* numbers, and from_data(F.to_data()) equals F for every F with orthonormal
\* axes (the yaxis is orthonormalized against the new xaxis).
C6_DataRoundTrip ==
    op = "from_data" =>
        /\ DOMAIN ret[1] = Fields
        /\ \A k \in Fields : Len(ret[1][k]) = 3
        /\ ret[1] = FData
        /\ Orthonormal(Cur, F) =>
              /\ exc = "none"
              /\ G # 0
              /\ data(Cur, G) = FData

C6_Witness ==
    /\ op = "from_data"
    /\ Orthonormal(Cur, F)
    /\ G # 0
    /\ ~Parallel(FX, IV(1, 0, 0))
    /\ ~Perp(FY, IV(1, 0, 0))

\* C7: F.transformed(T) leaves the point and the axes of F unchanged and
\* returns a new frame that equals the state F.transform(T) would leave in F
\* and shares no point or axis object with F; changing the returned frame
\* afterwards does not change F.
C7_Returned ==
    (op = "transformed" /\ exc = "none") =>
        /\ G \notin {0, F}
        /\ Refs(G) \cap Refs(F) = {}
        /\ data(Cur, G) = data(transform(Cur, F, args[1]), F)
C7_TransformedIsCopy ==
    /\ []C7_Returned
    /\ [][/\ op' = "transformed" => FData' = FData
          /\ op' \in {"g.point.transform", "g.transform"} => FData' = FData]_vars

C7_Witness ==
    /\ op = "g.point.transform"
    /\ G # 0
    /\ data(Cur, G).xaxis # FData.xaxis
    /\ point(Cur, G) # FP

\* C8: Frame.from_points with three collinear points (p2 = p1 and p3 = p1
\* included) fails with a DegenerateInputError and returns no frame; a frame
\* it returns has axes of length one.
Collinear(p1, p2, p3) ==
    Parallel(subtract_vectors(p2, p1), subtract_vectors(p3, p1))
C8_CollinearFails ==
    op = "from_points" =>
        /\ Collinear(args[1], args[2], args[3]) =>
              /\ exc = "DegenerateInputError"
              /\ G = 0
              /\ \A f \in FrameIds \ {F} : fh[f] = NoFrame
        /\ G # 0 => IsUnit(xaxis(Cur, G)) /\ IsUnit(yaxis(Cur, G))

C8_Witness ==
    /\ op = "from_points"
    /\ Collinear(args[1], args[2], args[3])
    /\ args[2] # args[1]
    /\ args[3] # args[1]
    /\ args[3] # args[2]
    /\ exc = "DegenerateInputError"

(***************************************************************************)
(* Frame.__eq__ as a function of two frames.  The coordinates are integers *)
(* in units of 1e-6, so that differences around the tolerance are exact.   *)
(***************************************************************************)
\* tol = 1e-05, in units of 1e-6
Tol == 10

\* Frame.__iter__: a frame is here the record of its point and axes
Frame__iter__(frame) == <<frame.point, frame.xaxis, frame.yaxis>>

\* zip(s, t) stops at the end of the shorter sequence
ZipLen(s, t) == IF Len(s) < Len(t) THEN Len(s) ELSE Len(t)

\* a comparison that also rejects a difference of exactly tol
Differs_AtTol(a, b) == Abs(a - b) >= Tol

\* math.fabs(a - b) > tol
Differs(a, b) == Abs(a - b) > Tol

\* the two loops of __eq__ from the component j of the pair i on; n counts
\* the components compared so far
RECURSIVE EqScan(_, _, _, _, _)
EqScan(s, o, i, j, n) ==
    IF i > ZipLen(s, o) THEN [result |-> TRUE, compared |-> n]
    ELSE IF j > ZipLen(s[i], o[i]) THEN EqScan(s, o, i + 1, 1, n)
    ELSE IF Differs(s[i][j], o[i][j]) THEN [result |-> FALSE, compared |-> n + 1]
    ELSE EqScan(s, o, i, j + 1, n + 1)

\* Frame.__eq__
Frame__eq__(self, other) == EqScan(Frame__iter__(self), Frame__iter__(other), 1, 1, 0)

EqFrames == {[point |-> <<1000000, 2000000, -3000000>>,
              xaxis |-> <<600000, 800000, 0>>,
              yaxis |-> <<-800000, 600000, 0>>]}
EqDeltas == {-11, -10, 0, 9, 10, 11, 1000000}
Perturb(frame, k, d) ==
    LET i == ((k - 1) \div 3) + 1
        j == ((k - 1) % 3) + 1
    IN  IF i = 1 THEN [frame EXCEPT !.point[j] = @ + d]
        ELSE IF i = 2 THEN [frame EXCEPT !.xaxis[j] = @ + d]
        ELSE [frame EXCEPT !.yaxis[j] = @ + d]

\* the two operands: a frame and the frame with two coordinates moved
InitEq ==
    \E f \in EqFrames, k1 \in 1..9, k2 \in 1..9, d1 \in EqDeltas, d2 \in EqDeltas :
        /\ fh = Empty.fh
        /\ vh = Empty.vh
        /\ G = 0
        /\ exc = "none"
        /\ op = "input"
        /\ args = <<f, Perturb(Perturb(f, k1, d1), k2, d2)>>
        /\ ret = <<>>
        /\ nops = 0

\* args[1] == args[2]
Compare ==
    /\ op = "input"
    /\ op' = "eq"
    /\ ret' = <<Frame__eq__(args[1], args[2])>>
    /\ nops' = nops + 1
    /\ UNCHANGED <<fh, vh, G, exc, args>>

NextEq == Compare

SpecEq == InitEq /\ [][NextEq]_vars

\* C5: F == G is True if and only if each of the nine coordinates of point,
\* xaxis and yaxis differs by no more than the tolerance 1e-5, and True is
\* returned only after all nine coordinates have been compared.
Coordinates(frame) ==
    [k \in 1..9 |-> Frame__iter__(frame)[((k - 1) \div 3) + 1][((k - 1) % 3) + 1]]
C5_Equality ==
    op = "eq" =>
        /\ ret[1].result =
              (\A k \in 1..9 :
                  Abs(Coordinates(args[1])[k] - Coordinates(args[2])[k]) <= Tol)
        /\ ret[1].result => ret[1].compared = 9

C5_Witness ==
    /\ op = "eq"
    /\ ret[1].result
    /\ \E k \in 1..9 :
          Abs(Coordinates(args[1])[k] - Coordinates(args[2])[k]) = Tol

(***************************************************************************)
(* bestfit_plane_numpy as a function of the list of points                 *)
(***************************************************************************)
MaxPoints == 3

FitPoints == {IV(0, 0, 0), IV(1, 0, 0), IV(2, 0, 0), IV(0, 3, 0), IV(0, 0, 4)}

\* the lists of at most n points
RECURSIVE Lists(_)
Lists(n) ==
    IF n = 0 THEN {<<>>}
    ELSE Lists(n - 1) \cup {Append(l, q) : l \in {k \in Lists(n - 1) : Len(k) = n - 1},
                                            q \in FitPoints}

\* numpy.sum(xyz, axis=0)
RECURSIVE SumRows(_)
SumRows(xyz) == IF xyz = <<>> THEN ZeroVec ELSE add_vectors(Head(xyz), SumRows(Tail(xyz)))

\* 0.0 / 0 in numpy: nan, with a warning and no exception
NaN == "nan"
NaNVec == <<NaN, NaN, NaN>>

\* c = sum(xyz, axis=0) / n
Centroid(xyz) ==
    IF Len(xyz) = 0 THEN NaNVec
    ELSE scale_vector(SumRows(xyz), RDiv(One, I(Len(xyz))))

\* Yt = xyz - c
Centered(xyz, c) == [k \in 1..Len(xyz) |-> subtract_vectors(xyz[k], c)]

\* (Yt.T.dot(Yt))[i][j]
RECURSIVE Gram(_, _, _)
Gram(Yt, i, j) ==
    IF Yt = <<>> THEN Zero
    ELSE RAdd(RMul(Head(Yt)[i], Head(Yt)[j]), Gram(Tail(Yt), i, j))

\* C = m * Yt.T.dot(Yt), a sequence of three rows
Covariance(Yt, m) == [i \in 1..3 |-> [j \in 1..3 |-> RMul(m, Gram(Yt, i, j))]]

MatVec3(C, w) == [i \in 1..3 |-> dot_vectors(C[i], w)]

\* scipy.linalg.svd(C): vT[2, :] is a unit vector of the direction in which
\* the symmetric matrix C has its smallest singular value.  For a C of rank
\* two that is the normalized cross product of two independent rows, up to
\* the sign; for a C of lower rank it is a unit vector of the null space,
\* which the library picks: any of them here.  (A C of rank three has its
\* smallest singular vector outside the rationals.)
UnitVectors ==
    {IV(1, 0, 0), IV(-1, 0, 0), IV(0, 1, 0), IV(0, -1, 0), IV(0, 0, 1), IV(0, 0, -1),
     <<Zero, Q(3, 5), Q(4, 5)>>, <<Q(3, 5), Zero, Q(-4, 5)>>, <<Q(4, 5), Q(3, 5), Zero>>}
RowCrosses(C) ==
    {cross_vectors(C[1], C[2]), cross_vectors(C[1], C[3]), cross_vectors(C[2], C[3])}
        \ {ZeroVec}
SmallestSingularVectors(C) ==
    IF RowCrosses(C) # {}
    THEN UNION {{(unitize(v)).v, scale_vector((unitize(v)).v, I(-1))} :
                   v \in {u \in RowCrosses(C) : (unitize(u)).exc = "none"}}
    ELSE {w \in UnitVectors : MatVec3(C, w) = ZeroVec}

\* bestfit_plane_numpy, up to the call of svd: the exception or c and C
PlaneCovariance(points) ==
    LET Result(n, c) ==
            IF n = 1 THEN [exc |-> "ZeroDivisionError", c |-> c, C |-> <<>>]
            ELSE IF n = 0
            THEN [exc |-> "none", c |-> c, C |-> Covariance(<<>>, I(-1))]
            ELSE [exc |-> "none", c |-> c,
                  C |-> Covariance(Centered(points, c), RDiv(One, I(n - 1)))]
    IN  Result(Len(points), Centroid(points))

InitFit ==
    \E points \in Lists(MaxPoints) :
        /\ fh = Empty.fh
        /\ vh = Empty.vh
        /\ G = 0
        /\ exc = "none"
        /\ op = "input"
        /\ args = <<points>>
        /\ ret = <<>>
        /\ nops = 0

\* c, w = bestfit_plane_numpy(points)
FitPlaneReturn(r) ==
    /\ op' = "bestfit_plane_numpy"
    /\ exc' = r.exc
    /\ IF r.exc # "none" THEN ret' = <<>>
       ELSE \E w \in SmallestSingularVectors(r.C) : ret' = <<r.c, w>>
    /\ nops' = nops + 1
    /\ UNCHANGED <<fh, vh, G, args>>
FitPlane ==
    /\ op = "input"
    /\ FitPlaneReturn(PlaneCovariance(args[1]))

NextFit == FitPlane

SpecFit == InitFit /\ [][NextFit]_vars

\* all the points lie on one line
AllCollinear(points) ==
    \A i \in 1..Len(points), j \in 1..Len(points), k \in 1..Len(points) :
        Collinear(points[i], points[j], points[k])

\* C9: an estimator given fewer points than its minimum (3 for the plane)
\* raises an InsufficientDataError and returns no fit result, for every such
\* number of points.
C9_InsufficientData ==
    (op = "bestfit_plane_numpy" /\ Len(args[1]) < 3) =>
        exc = "InsufficientDataError" /\ ret = <<>>

\* C10: bestfit_plane_numpy given three or more points that are all
\* collinear raises or flags a DegenerateInputError and does not return a
\* normal as if the plane were determined.
C10_CollinearFlagged ==
    (op = "bestfit_plane_numpy" /\ Len(args[1]) >= 3 /\ AllCollinear(args[1])) =>
        exc = "DegenerateInputError" /\ ret = <<>>

(***************************************************************************)
(* bestfit_circle_numpy as a function of the list of points and of the     *)
(* outcome of scipy.optimize.leastsq                                       *)
(***************************************************************************)
\* points of the circle of radius 5 around the origin of the plane z = 0
CirclePoints ==
    {IV(5, 0, 0), IV(-5, 0, 0), IV(0, 5, 0), IV(3, 4, 0), IV(-3, -4, 0), IV(4, -3, 0)}
CircleCentre == ZeroVec

\* the lists of at most n elements of S
RECURSIVE ListsOf(_, _)
ListsOf(S, n) ==
    IF n = 0 THEN {<<>>}
    ELSE ListsOf(S, n - 1) \cup {Append(l, q) : l \in {k \in ListsOf(S, n - 1) : Len(k) = n - 1},
                                                q \in S}

\* compas.numerical.pca_numpy: the mean of the points and an orthonormal
\* basis u, v, w of principal directions; for points of the plane z = 0
\* the direction w of least variance is the z axis.  The in-plane basis is
\* one of two with rational coordinates.
PcaBases ==
    {<<IV(1, 0, 0), IV(0, 1, 0), IV(0, 0, 1)>>,
     <<<<Q(3, 5), Q(4, 5), Zero>>, <<Q(-4, 5), Q(3, 5), Zero>>, IV(0, 0, 1)>>}
pca_numpy(points) == {[o |-> Centroid(points), uvw |-> b] : b \in PcaBases}

\* compas.geometry.local_coords_numpy, for an orthonormal uvw
LocalCoords(uvw, d) == <<dot_vectors(d, uvw[1]), dot_vectors(d, uvw[2]), dot_vectors(d, uvw[3])>>
local_coords_numpy(o, uvw, points) ==
    [k \in 1..Len(points) |-> LocalCoords(uvw, subtract_vectors(points[k], o))]
\* compas.geometry.global_coords_numpy, for one point
global_coords_numpy(o, uvw, r) ==
    add_vectors(o, add_vectors(scale_vector(uvw[1], r[1]),
                  add_vectors(scale_vector(uvw[2], r[2]), scale_vector(uvw[3], r[3]))))

\* x = rst[:, 0], y = rst[:, 1]
Plane2(r) == <<r[1], r[2]>>
\* dist(xc, yc) ** 2, for the point k
DistSq(rst, k, c) ==
    RAdd(RMul(RSub(rst[k][1], c[1]), RSub(rst[k][1], c[1])),
         RMul(RSub(rst[k][2], c[2]), RSub(rst[k][2], c[2])))
\* every distance to c is rational
ExactDist(rst, c) == \A k \in 1..Len(rst) : IsSquare(DistSq(rst, k, c))
\* Ri = dist(*c)
Dist(rst, c) == [k \in 1..Len(rst) |-> RSqrt(DistSq(rst, k, c))]
RECURSIVE SumSeq(_)
SumSeq(s) == IF s = <<>> THEN Zero ELSE RAdd(Head(s), SumSeq(Tail(s)))
\* Ri.mean()
Mean(s) == RDiv(SumSeq(s), I(Len(s)))

\* scipy.optimize.leastsq(f, c0) returns the last iterate c and the integer
\* flag ier: 1, 2, 3 or 4 say that a solution was found, 5 to 8 say that
\* none was found (leastsq then warns and returns all the same).  A found
\* solution is a point all the points are equally far from; an iterate of
\* a failed solve is the start c0 or any other point.
IerValues == 1..8
IerConverged == 1..4
Residuals(rst, c) == [k \in 1..Len(rst) |-> RSub(Dist(rst, c)[k], Mean(Dist(rst, c)))]
IsSolution(rst, c) == \A k \in 1..Len(rst) : Residuals(rst, c)[k] = Zero
leastsq(rst, c0, centre) ==
    {[c |-> c, ier |-> i] : c \in {d \in {c0, centre} : ExactDist(rst, d)}, i \in IerValues}
        \ {s \in [c : {c0, centre}, ier : IerConverged] :
              ~ExactDist(rst, s.c) \/ ~IsSolution(rst, s.c)}

InitCircle ==
    \E points \in {l \in ListsOf(CirclePoints, MaxPoints) : Len(l) >= 2} :
        /\ fh = Empty.fh
        /\ vh = Empty.vh
        /\ G = 0
        /\ exc = "none"
        /\ op = "input"
        /\ args = <<points>>
        /\ ret = <<>>
        /\ nops = 0

\* lines 165-180: ier is assigned and never read; o, w, R are returned
CircleReturn(o, uvw, rst, s) ==
    /\ op' = "bestfit_circle_numpy"
    /\ args' = <<args[1], s>>
    /\ exc' = "none"
    /\ ret' = <<global_coords_numpy(o, uvw, <<s.c[1], s.c[2], Zero>>), uvw[3],
                Mean(Dist(rst, s.c))>>
    /\ nops' = nops + 1
    /\ UNCHANGED <<fh, vh, G>>
CircleSolve(o, uvw, rst) ==
    \E s \in leastsq(rst, <<Mean([k \in 1..Len(rst) |-> rst[k][1]]),
                            Mean([k \in 1..Len(rst) |-> rst[k][2]])>>,
                     Plane2(LocalCoords(uvw, subtract_vectors(CircleCentre, o)))) :
        CircleReturn(o, uvw, rst, s)
FitCircle ==
    /\ op = "input"
    /\ \E pc \in pca_numpy(args[1]) :
          CircleSolve(pc.o, pc.uvw, local_coords_numpy(pc.o, pc.uvw, args[1]))

NextCircle == FitCircle

SpecCircle == InitCircle /\ [][NextCircle]_vars

\* C11: bestfit_circle_numpy fails with a ConvergenceError whenever the
\* least-squares solve reports that it did not converge; a centre and a
\* radius are returned only when the solver reported convergence.
C11_ConvergenceError ==
    (op = "bestfit_circle_numpy" /\ args[2].ier \notin IerConverged) =>
        exc = "ConvergenceError" /\ ret = <<>>

(***************************************************************************)
(* bestfit_sphere_numpy as a function of the list of points.  The points   *)
(* have integer coordinates <<x, y, z>>; the fitted centre and radius are  *)
(* rationals.                                                              *)
(***************************************************************************)
MaxSpherePoints == 5

\* two spheres of radius 3 and points of them: the first three points lie
\* on both, the next two on the first only, the last on the second only
Sphere1 == [c |-> <<0, 0, 0>>, r |-> 3]
Sphere2 == [c |-> <<2, 0, 0>>, r |-> 3]
Spheres == {Sphere1, Sphere2}
SpherePoints ==
    {<<1, 2, 2>>, <<1, -2, 2>>, <<1, 2, -2>>, <<3, 0, 0>>, <<0, 3, 0>>, <<5, 0, 0>>}

\* the lists of at most n elements of S without a repeated element
RECURSIVE InjLists(_, _)
InjLists(S, n) ==
    IF n = 0 THEN {<<>>}
    ELSE InjLists(S, n - 1) \cup
         UNION {{Append(l, q) : q \in S \ {l[k] : k \in 1..Len(l)}} :
                   l \in {k \in InjLists(S, n - 1) : Len(k) = n - 1}}

IDot(u, v) == u[1] * v[1] + u[2] * v[2] + u[3] * v[3]
ICross(u, v) ==
    <<u[2] * v[3] - u[3] * v[2], u[3] * v[1] - u[1] * v[3], u[1] * v[2] - u[2] * v[1]>>
ISub(u, v) == <<u[1] - v[1], u[2] - v[2], u[3] - v[3]>>
IAdd(u, v) == <<u[1] + v[1], u[2] + v[2], u[3] + v[3]>>
IScale(u, s) == <<u[1] * s, u[2] * s, u[3] * s>>

\* A[:, 0] = spX*2, A[:, 1] = spY*2, A[:, 2] = spZ*2, A[:, 3] = 1
SphereA(points) ==
    [k \in 1..Len(points) |-> <<points[k][1] * 2, points[k][2] * 2, points[k][3] * 2, 1>>]
\* f[:, 0] = (spX*spX) + (spY*spY) + (spZ*spZ)
SphereF(points) == [k \in 1..Len(points) |-> IDot(points[k], points[k])]

\* numpy.linalg.lstsq(A, f) for a matrix A whose last column is all ones.
\* Where A has rank 4 and A x = f has a solution, that solution is the
\* least-squares solution.  It is computed from four independent rows: the
\* differences to the first of them eliminate the last unknown, Cramer's
\* rule gives the other three as the integer vector num over the
\* determinant det.  A least-squares solution that is not a solution, and
\* the minimum-norm solution of a rank-deficient system, are outside the
\* exact arithmetic ("Inexact").
Row3(r) == <<r[1], r[2], r[3]>>
RowDiff(A, i, j) == ISub(Row3(A[j]), Row3(A[i]))
Quads(n) == {q \in (1..n) \X (1..n) \X (1..n) \X (1..n) : q[1] < q[2] /\ q[2] < q[3] /\ q[3] < q[4]}
QuadDet(A, q) ==
    IDot(RowDiff(A, q[1], q[2]), ICross(RowDiff(A, q[1], q[3]), RowDiff(A, q[1], q[4])))
FullRank(A) == \E q \in Quads(Len(A)) : QuadDet(A, q) # 0
Cramer3(r1, r2, r3, g) ==
    IAdd(IScale(ICross(r2, r3), g[1]),
         IAdd(IScale(ICross(r3, r1), g[2]), IScale(ICross(r1, r2), g[3])))
\* the solution <<num[1], num[2], num[3], last>> / det
WithLast(A, f, q, num, det) ==
    [num |-> num, last |-> f[q[1]] * det - IDot(Row3(A[q[1]]), num), det |-> det]
SolveQuad(A, f, q) ==
    WithLast(A, f, q,
             Cramer3(RowDiff(A, q[1], q[2]), RowDiff(A, q[1], q[3]), RowDiff(A, q[1], q[4]),
                     <<f[q[2]] - f[q[1]], f[q[3]] - f[q[1]], f[q[4]] - f[q[1]]>>),
             QuadDet(A, q))
Solves(A, f, x) ==
    \A k \in 1..Len(A) : IDot(Row3(A[k]), x.num) + A[k][4] * x.last = f[k] * x.det
LstsqResult(A, f, x) ==
    IF Solves(A, f, x)
    THEN [exc |-> "none",
          C |-> <<Q(x.num[1], x.det), Q(x.num[2], x.det), Q(x.num[3], x.det), Q(x.last, x.det)>>]
    ELSE [exc |-> "Inexact", C |-> <<>>]
lstsq(A, f) ==
    IF ~FullRank(A) THEN [exc |-> "Inexact", C |-> <<>>]
    ELSE LstsqResult(A, f, SolveQuad(A, f, CHOOSE q \in Quads(Len(A)) : QuadDet(A, q) # 0))

\* t = (C[0]*C[0]) + (C[1]*C[1]) + (C[2]*C[2]) + C[3], without the last term
SphereT_NoK(C) == dot_vectors(Row3(C), Row3(C))
\* t = (C[0]*C[0]) + (C[1]*C[1]) + (C[2]*C[2]) + C[3]
SphereT(C) == RAdd(dot_vectors(Row3(C), Row3(C)), C[4])

\* radius = sqrt(t); return [C[0], C[1], C[2]], radius
SphereReturn(C, t) ==
    IF RLt(t, Zero) THEN [exc |-> "none", ret |-> <<Row3(C), NaN>>]
    ELSE IF ~IsSquare(t) THEN [exc |-> "Inexact", ret |-> <<>>]
    ELSE [exc |-> "none", ret |-> <<Row3(C), RSqrt(t)>>]
SphereSolved(l) ==
    IF l.exc # "none" THEN [exc |-> l.exc, ret |-> <<>>] ELSE SphereReturn(l.C, SphereT(l.C))
bestfit_sphere_numpy(points) == SphereSolved(lstsq(SphereA(points), SphereF(points)))

InitSphere ==
    \E points \in {l \in InjLists(SpherePoints, MaxSpherePoints) : Len(l) >= 4} :
        /\ fh = Empty.fh
        /\ vh = Empty.vh
        /\ G = 0
        /\ exc = "none"
        /\ op = "input"
        /\ args = <<points>>
        /\ ret = <<>>
        /\ nops = 0

SphereDone(r) ==
    /\ r.exc # "Inexact"
    /\ op' = "bestfit_sphere_numpy"
    /\ exc' = r.exc
    /\ ret' = r.ret
    /\ nops' = nops + 1
    /\ UNCHANGED <<fh, vh, G, args>>
FitSphere ==
    /\ op = "input"
    /\ SphereDone(bestfit_sphere_numpy(args[1]))

NextSphere == FitSphere

SpecSphere == InitSphere /\ [][NextSphere]_vars

\* the points do not all lie in one plane
NonCoplanar(points) ==
    \E q \in Quads(Len(points)) :
        IDot(ISub(points[q[2]], points[q[1]]),
             ICross(ISub(points[q[3]], points[q[1]]), ISub(points[q[4]], points[q[1]]))) # 0
\* every point lies exactly on the sphere s
OnSphere(points, s) ==
    \A k \in 1..Len(points) :
        IDot(ISub(points[k], s.c), ISub(points[k], s.c)) = s.r * s.r
SphereCase(s) ==
    /\ Len(args[1]) >= 4
    /\ NonCoplanar(args[1])
    /\ OnSphere(args[1], s)
SphereExpected(s) == <<IV(s.c[1], s.c[2], s.c[3]), I(s.r)>>
SolvedT(l) == IF l.exc = "none" THEN SphereT(l.C) ELSE Zero

\* C12: for four or more non-coplanar points lying exactly on a sphere with
\* centre c and radius r, bestfit_sphere_numpy returns the centre c and the
\* radius r: the unknowns of the linear system are uniquely determined, the
\* centre is the first three and radius^2 = k + xc^2 + yc^2 + zc^2 is
\* positive.  Checked on the input (the function's value) and on the
\* returned state.
C12_SphereExact ==
    \A s \in Spheres :
        (op \in {"input", "bestfit_sphere_numpy"} /\ SphereCase(s)) =>
            /\ FullRank(SphereA(args[1]))
            /\ bestfit_sphere_numpy(args[1]) = [exc |-> "none", ret |-> SphereExpected(s)]
            /\ RLt(Zero, SolvedT(lstsq(SphereA(args[1]), SphereF(args[1]))))
            /\ op = "bestfit_sphere_numpy" => exc = "none" /\ ret = SphereExpected(s)
C12_Witness ==
    /\ op = "bestfit_sphere_numpy"
    /\ Len(args[1]) = 5
    /\ SphereCase(Sphere1)
    /\ ret = SphereExpected(Sphere1)

(***************************************************************************)
(* Frame.from_plane as a function of the plane (a point and a normal)      *)
(***************************************************************************)
\* normals with the largest component first, second and third, with ties,
\* with negative and with zero components, and the zero vector.  The unit
\* xaxis of the first eleven is rational; that of the normals along a
\* coordinate axis is (1, 1, 0) / sqrt(2) up to the order.
NormalsIn ==
    {IV(2, 2, -1), IV(2, -1, 2), IV(2, 1, -2), IV(-2, -2, 1), IV(1, 2, -2), IV(-1, 2, 2),
     IV(-3, -6, 6), IV(3, -4, 12), IV(-4, 3, 12), IV(4, -3, 12), IV(3, -4, -12),
     IV(0, 0, 1), IV(0, 0, -2), IV(0, 3, 0), IV(-1, 0, 0), IV(0, 0, 0)}
PlanesIn == {[point |-> p, normal |-> n] : p \in PointsIn, n \in NormalsIn}

\* idx = coeffs_abs.index(max(coeffs_abs)): the first index of the maximum
MaxAbsIndex(n) ==
    CHOOSE i \in 1..3 :
        /\ \A j \in 1..3 : ~RLt(RAbs(n[i]), RAbs(n[j]))
        /\ \A j \in 1..(i - 1) : RLt(RAbs(n[j]), RAbs(n[i]))

\* coords = [0, 0, 0]; coords[idx] = d / coeffs[idx]
PlanePoint1(n, d, idx) == [ZeroVec EXCEPT ![idx] = RDiv(d, n[idx])]
\* coords = [1, 1, 1]; coords[idx] = 0;
\* coords[idx] = (d - sum([a*x for a, x in zip(coeffs, coords)])) / coeffs[idx]
PlaneOnes(idx) == [IV(1, 1, 1) EXCEPT ![idx] = Zero]
PlanePoint2(n, d, idx) ==
    [PlaneOnes(idx) EXCEPT ![idx] = RDiv(RSub(d, dot_vectors(n, PlaneOnes(idx))), n[idx])]

\* a yaxis = xaxis.cross(plane.normal), the operands exchanged
PlaneAxesOf_Exchanged(n, pt1, pt2) ==
    [exc |-> "none", xaxis |-> subtract_vectors(pt2, pt1),
     yaxis |-> cross_vectors(subtract_vectors(pt2, pt1), n)]
\* xaxis = pt2_in_plane - pt1_in_plane; yaxis = plane.normal.cross(xaxis)
PlaneAxesOf(n, pt1, pt2) ==
    [exc |-> "none", xaxis |-> subtract_vectors(pt2, pt1),
     yaxis |-> cross_vectors(n, subtract_vectors(pt2, pt1))]
\* lines 425-451: the division by coeffs[idx] raises for the zero normal
PlaneAxesAt(n, d, idx) ==
    IF n[idx] = Zero THEN [exc |-> "ZeroDivisionError", xaxis |-> <<>>, yaxis |-> <<>>]
    ELSE PlaneAxesOf(n, PlanePoint1(n, d, idx), PlanePoint2(n, d, idx))
PlaneAxes(plane) ==
    PlaneAxesAt(plane.normal, dot_vectors(plane.point, plane.normal), MaxAbsIndex(plane.normal))

\* Frame.from_plane
from_plane(m, plane) ==
    LET Make(a) == IF a.exc # "none" THEN Raise(m, a.exc)
                   ELSE New(m, plane.point, a.xaxis, a.yaxis)
    IN  Make(PlaneAxes(plane))

InitPlane ==
    \E plane \in PlanesIn :
        /\ fh = worldXY(Empty).fh
        /\ vh = worldXY(Empty).vh
        /\ G = 0
        /\ exc = "none"
        /\ op = "input"
        /\ args = <<plane>>
        /\ ret = <<>>
        /\ nops = 0

\* g = Frame.from_plane(plane)
FromPlane ==
    /\ op = "input"
    /\ DoneNew(from_plane(Cur, args[1]), "from_plane", args, <<>>)

NextPlane == FromPlane

SpecPlane == InitPlane /\ [][NextPlane]_vars

\* u is parallel to n and points the same way
SameOrientation(u, n) == Parallel(u, n) /\ Positive(dot_vectors(u, n))
\* the axes that from_plane hands to the constructor span the plane
PlaneAxesFit(a, n) ==
    /\ a.exc = "none"
    /\ Perp(a.xaxis, n)
    /\ Perp(a.yaxis, n)
    /\ Perp(a.xaxis, a.yaxis)
    /\ SameOrientation(cross_vectors(a.xaxis, a.yaxis), n)
\* the returned frame g fits the plane
PlaneFrameFits(g, plane) ==
    /\ g # 0
    /\ point(Cur, g) = plane.point
    /\ Perp(xaxis(Cur, g), plane.normal)
    /\ Perp(yaxis(Cur, g), plane.normal)
    /\ SameOrientation(normal(Cur, g), plane.normal)

\* C13: for every plane with point p and non-zero normal n, Frame.from_plane
\* returns a frame whose point is p, whose xaxis and yaxis are perpendicular
\* to n and whose normal is parallel to n with the same orientation,
\* whichever component of n is the largest, also when the other two are
\* zero or negative.  Checked on the axes handed to the constructor for
\* every input, and on the returned frame wherever the unit axes are
\* rational.
C13_FromPlane ==
    (op \in {"input", "from_plane"} /\ args[1].normal # ZeroVec) =>
        /\ PlaneAxesFit(PlaneAxes(args[1]), args[1].normal)
        /\ op = "from_plane" => exc = "none" /\ PlaneFrameFits(G, args[1])
C13_Witness ==
    /\ op = "from_plane"
    /\ exc = "none"
    /\ args[1].normal = IV(3, -4, -12)
    /\ args[1].point # ZeroVec
    /\ PlaneFrameFits(G, args[1])

(***************************************************************************)
(* Frame.from_list.  The argument is a list object: args[1] is its         *)
(* contents, which the call can change.                                    *)
(***************************************************************************)
MaxListLen == 17

\* the matrices the lists are taken from: rigid transformations
ListMatrices ==
    Transforms \cup {MatrixFromColumns(IV(0, 0, 1), IV(1, 0, 0), IV(0, 1, 0), IV(2, 0, 5))}
\* the first n values of the matrix M in row-major order, continued by ones
ListOf(M, n) ==
    [k \in 1..n |-> IF k <= 16 THEN M[((k - 1) \div 4) + 1][((k - 1) % 4) + 1] ELSE One]
ListValuesIn == {ListOf(M, n) : M \in ListMatrices, n \in 0..MaxListLen}

\* values.extend([0., 0., 0., 1.])
ListPad == <<Zero, Zero, Zero, One>>
\* lines 263-264
ListExtended(values) == IF Len(values) = 12 THEN values \o ListPad ELSE values
\* a length check that accepts longer lists too
ListLengthOk_AtLeast(values) == Len(values) >= 16
\* line 265, negated
ListLengthOk(values) == Len(values) = 16
\* line 273, for the row i: float(values[i * 4 + j])
ListRow(values, i) == [j \in 1..4 |-> values[(i - 1) * 4 + j]]
\* lines 270-273
ListMatrix(values) == [i \in 1..4 |-> ListRow(values, i)]

\* Frame.from_matrix for a rigid transformation: decompose_matrix gives the
\* translation and the angles of the rotation, of which the basis vectors
\* are the first two columns
from_matrix(m, M) == New(m, translation(M), basis_vectors(M)[1], basis_vectors(M)[2])

\* Frame.from_list: the machine after the call and the contents of the list
from_list(m, values) ==
    LET Checked(v) ==
            IF ~ListLengthOk(v) THEN [m |-> Raise(m, "ValueError"), values |-> v]
            ELSE [m |-> from_matrix(m, ListMatrix(v)), values |-> v]
    IN  Checked(ListExtended(values))

InitList ==
    \E values \in ListValuesIn :
        /\ fh = worldXY(Empty).fh
        /\ vh = worldXY(Empty).vh
        /\ G = 0
        /\ exc = "none"
        /\ op = "input"
        /\ args = <<values>>
        /\ ret = <<>>
        /\ nops = 0

\* g = Frame.from_list(values)
FromListDone(r) == DoneNew(r.m, "from_list", <<r.values>>, <<>>)
FromList ==
    /\ op = "input"
    /\ FromListDone(from_list(Cur, args[1]))

NextList == FromList

SpecList == InitList /\ [][NextList]_vars

\* C14: Frame.from_list raises ValueError for every input whose length is
\* neither 12 nor 16 and constructs no frame in that case; it raises no
\* length error for inputs of length exactly 12 or exactly 16.
C14_LengthError ==
    [][op' = "from_list" =>
          /\ Len(args[1]) \notin {12, 16} =>
                exc' = "ValueError" /\ G' = 0 /\ fh' = fh /\ vh' = vh
          /\ Len(args[1]) \in {12, 16} => exc' = "none" /\ G' # 0]_vars
C14_Witness ==
    /\ op = "from_list"
    /\ Len(args[1]) = 17
    /\ exc = "ValueError"
    /\ G = 0

\* C15: Frame.from_list has no effect on its argument: after the call the
\* list has the same length and the same elements as before, for inputs of
\* 12 elements as well as of 16, whether the call succeeds or raises.
C15_ArgumentUnchanged == [][op' = "from_list" => args' = args]_vars

(***************************************************************************)
(* Two threads in Frame.from_list on the same list object.  A thread is    *)
(* switched between bytecodes: the steps of a thread are the reads of the  *)
(* length, the extend, the assembly of a row and the call of from_matrix.  *)
(* ret[t] is the state of the thread t.                                    *)
(***************************************************************************)
Threads == {1, 2}
ThreadStart == [pc |-> "len12", exc |-> "none", matrix |-> <<>>, frame |-> <<>>]

InitThreads ==
    \E values \in {l \in ListValuesIn : Len(l) = 12} :
        /\ fh = worldXY(Empty).fh
        /\ vh = worldXY(Empty).vh
        /\ G = 0
        /\ exc = "none"
        /\ op = "threads"
        /\ args = <<values>>
        /\ ret = [t \in Threads |-> ThreadStart]
        /\ nops = 0

ThreadGoes(t, s) ==
    /\ ret' = [ret EXCEPT ![t] = s]
    /\ UNCHANGED <<fh, vh, G, exc, op, nops>>

\* line 263: if len(values) == 12
ThreadLen12(t) ==
    /\ ret[t].pc = "len12"
    /\ ThreadGoes(t, [ret[t] EXCEPT !.pc = IF Len(args[1]) = 12 THEN "extend" ELSE "len16"])
    /\ UNCHANGED args
\* line 264: values.extend([0., 0., 0., 1.])
ThreadExtend(t) ==
    /\ ret[t].pc = "extend"
    /\ ThreadGoes(t, [ret[t] EXCEPT !.pc = "len16"])
    /\ args' = <<args[1] \o ListPad>>
\* lines 265-268: if len(values) != 16: raise ValueError
ThreadLen16(t) ==
    /\ ret[t].pc = "len16"
    /\ ThreadGoes(t, IF ListLengthOk(args[1]) THEN [ret[t] EXCEPT !.pc = "row"]
                     ELSE [ret[t] EXCEPT !.pc = "done", !.exc = "ValueError"])
    /\ UNCHANGED args
\* lines 271-273: one row of the matrix
ThreadRow(t) ==
    /\ ret[t].pc = "row"
    /\ ThreadGoes(t, [ret[t] EXCEPT
                         !.matrix = Append(@, ListRow(args[1], Len(@) + 1)),
                         !.pc = IF Len(ret[t].matrix) = 3 THEN "from_matrix" ELSE "row"])
    /\ UNCHANGED args
\* the point and the axes of the frame that from_matrix returns
MatrixFrame(m) == data(m, m.new)
\* line 275: return cls.from_matrix(matrix)
ThreadFromMatrix(t) ==
    /\ ret[t].pc = "from_matrix"
    /\ ThreadGoes(t, [ret[t] EXCEPT !.pc = "done",
                                    !.frame = MatrixFrame(from_matrix(Cur, ret[t].matrix))])
    /\ UNCHANGED args

NextThreads ==
    \E t \in Threads :
        \/ ThreadLen12(t)
        \/ ThreadExtend(t)
        \/ ThreadLen16(t)
        \/ ThreadRow(t)
        \/ ThreadFromMatrix(t)

SpecThreads == InitThreads /\ [][NextThreads]_vars

\* the frame of one sequential call
SequentialFrame(values) == MatrixFrame((from_list(worldXY(Empty), values)).m)
\* the list as it was passed: the threads only append to it
ThreadList == SubSeq(args[1], 1, 12)

\* C16: two threads that call Frame.from_list concurrently on the same list
\* of 12 elements both return the frame that a single sequential call
\* returns, and neither raises, under every interleaving of their length
\* check, padding and matrix-assembly steps.
C16_ConcurrentCalls ==
    \A t \in Threads :
        ret[t].pc = "done" =>
            ret[t].exc = "none" /\ ret[t].frame = SequentialFrame(ThreadList)

(***************************************************************************)
(* The re-expression of vectors: a frame F that is constructed, changed by *)
(* assignments and asked for a round trip                                  *)
(***************************************************************************)
\* Vector.transform: a direction, the homogeneous column with w = 0 (the
\* translation of the matrix does not apply)
transform_vector(M, v) ==
    [i \in 1..3 |->
        RAdd(RAdd(RMul(M[i][1], v[1]), RMul(M[i][2], v[2])), RMul(M[i][3], v[3]))]

\* Frame.represent_vector_in_local_coordinates
represent_vector_in_local_coordinates(m, f, vector) ==
    LET Local(B) ==
            IF B.exc # "none" THEN [exc |-> B.exc, v |-> vector]
            ELSE [exc |-> "none", v |-> transform_vector(inverse(B.M), vector)]
    IN  Local(matrix_from_basis_vectors(xaxis(m, f), yaxis(m, f)))

\* Frame.represent_vector_in_global_coordinates
represent_vector_in_global_coordinates(m, f, vector) ==
    [exc |-> "none", v |-> transform_vector(matrix_from_frame(m, f), vector)]

VectorsIn == {IV(1, 2, 3), IV(0, 0, -1)}

\* F.represent_vector_in_global_coordinates(
\*     F.represent_vector_in_local_coordinates(v))
RoundTripOf(v, l) ==
    /\ l.exc # "Inexact"
    /\ Done(Raise(Cur, l.exc), "roundtrip_vector", <<v>>,
            IF l.exc = "none"
            THEN <<represent_vector_in_global_coordinates(Cur, F, l.v).v>>
            ELSE <<>>)
RoundTripVector ==
    \E v \in VectorsIn :
        /\ nops < MaxOps
        /\ RoundTripOf(v, represent_vector_in_local_coordinates(Cur, F, v))
        /\ UNCHANGED G

NextVector ==
    \/ AssignPoint
    \/ AssignXaxis
    \/ AssignYaxis
    \/ RoundTripVector

SpecVector == Init /\ [][NextVector]_vars

\* C17: for every Frame F, also one whose origin is not (0, 0, 0), and every
\* vector v, F.represent_vector_in_global_coordinates(
\* F.represent_vector_in_local_coordinates(v)) equals v.
C17_VectorRoundTrip == op = "roundtrip_vector" => exc = "none" /\ ret = <<args[1]>>

(***************************************************************************)
(* Index assignment                                                        *)
(***************************************************************************)
\* the vector that frame[k] reads after the step, for a key of the frame
ItemRead(h, v, k) ==
    IF k = 0 THEN v[h[F].point] ELSE IF k = 1 THEN v[h[F].xaxis] ELSE v[h[F].yaxis]

\* C18: frame[k] = v completes without raising for each k in {0, 1, 2} and
\* updates the point, the xaxis or the yaxis, so that frame[k] afterwards
\* reads the updated field (the value for the point, its unit vector for
\* the xaxis, a unit vector perpendicular to the xaxis for the yaxis); it
\* raises KeyError only for keys outside {0, 1, 2} and then leaves the frame
\* unchanged.  (A vector without a direction makes the setter itself raise,
\* which is not the KeyError of the claim.)
C18_IndexAssignment ==
    [][op' = "setitem" =>
          /\ args'[1] \in {0, 1, 2} => exc' # "KeyError"
          /\ (args'[1] = 0 /\ exc' = "none") => ItemRead(fh', vh', 0) = args'[2]
          /\ (args'[1] = 1 /\ exc' = "none") => ItemRead(fh', vh', 1) = unitize(args'[2]).v
          /\ (args'[1] = 2 /\ exc' = "none") =>
                IsUnit(ItemRead(fh', vh', 2)) /\ Perp(ItemRead(fh', vh', 2), ItemRead(fh', vh', 1))
          /\ args'[1] \notin {0, 1, 2} => exc' = "KeyError" /\ fh' = fh /\ vh' = vh]_vars

(***************************************************************************)
(* FaceSelector.select_faces as a function of the name attribute of the    *)
(* selector and of the names of the objects the host returns, in the       *)
(* order of the selection                                                  *)
(***************************************************************************)
MaxSelected == 3

\* rs.ObjectName(guid).split('.'): a mesh face and its label carry the same
\* name
ObjectNames ==
    {<<"mesh", "face", "3">>, <<"mesh", "face", "7">>, <<"mesh", "vertex", "3">>,
     <<"other", "face", "3">>, <<"face", "5">>}
Prefixes == {"", "mesh"}

Digits == <<"0", "1", "2", "3", "4", "5", "6", "7", "8", "9">>
\* ast.literal_eval of the text of a one-digit number
literal_eval(s) == (CHOOSE n \in 1..Len(Digits) : Digits[n] = s) - 1

\* 'face' in name, prefix in name
InName(part, name) == \E k \in 1..Len(name) : name[k] = part
\* seen.add(key): the set with the key, and the value None of the call
SetAdd(seen, key) == [seen |-> seen \cup {key}, value |-> "None"]
\* the truth value of an object
Truthy(value) == value # "None"

\* lines 47-53: the body of the loop for one object
SelectOne(st, prefix, name) ==
    IF InName("face", name) /\ (prefix = "" \/ InName(prefix, name))
    THEN IF ~Truthy(SetAdd(st.seen, name[Len(name)]).value)
         THEN [seen |-> SetAdd(st.seen, name[Len(name)]).seen,
               keys |-> Append(st.keys, literal_eval(name[Len(name)]))]
         ELSE [seen |-> SetAdd(st.seen, name[Len(name)]).seen, keys |-> st.keys]
    ELSE st
\* lines 46-53: for guid in guids
RECURSIVE SelectLoop(_, _, _)
SelectLoop(st, prefix, names) ==
    IF names = <<>> THEN st
    ELSE SelectLoop(SelectOne(st, prefix, Head(names)), prefix, Tail(names))
\* FaceSelector.select_faces
select_faces(prefix, names) ==
    IF names = <<>> THEN <<>>
    ELSE SelectLoop([seen |-> {}, keys |-> <<>>], prefix, names).keys

InitFaces ==
    \E prefix \in Prefixes, names \in ListsOf(ObjectNames, MaxSelected) :
        /\ fh = Empty.fh
        /\ vh = Empty.vh
        /\ G = 0
        /\ exc = "none"
        /\ op = "input"
        /\ args = <<prefix, names>>
        /\ ret = <<>>
        /\ nops = 0

\* keys = FaceSelector.select_faces(selector)
SelectFaces ==
    /\ op = "input"
    /\ op' = "select_faces"
    /\ ret' = <<select_faces(args[1], args[2])>>
    /\ nops' = nops + 1
    /\ UNCHANGED <<fh, vh, G, exc, args>>

NextFaces == SelectFaces

SpecFaces == InitFaces /\ [][NextFaces]_vars

\* the object passes the tests of select_faces
IsFace(prefix, name) == InName("face", name) /\ (prefix = "" \/ InName(prefix, name))
\* the keys of the faces among the first n objects, each at its first
\* selection
RECURSIVE FirstSelected(_, _, _)
FirstSelected(prefix, names, n) ==
    IF n = 0 THEN <<>>
    ELSE IF IsFace(prefix, names[n])
            /\ ~(\E k \in 1..(n - 1) :
                    IsFace(prefix, names[k])
                    /\ names[k][Len(names[k])] = names[n][Len(names[n])])
         THEN Append(FirstSelected(prefix, names, n - 1), literal_eval(names[n][Len(names[n])]))
    ELSE FirstSelected(prefix, names, n - 1)

\* C19: for any sequence of objects returned by the host selection,
\* select_faces returns a list in which every face key occurs at most once,
\* containing exactly the keys of the selected objects whose name has a
\* 'face' part and matches the name prefix, in the order of first selection;
\* objects failing those tests contribute nothing.
C19_FacesOnce ==
    op = "select_faces" =>
        /\ \A i \in 1..Len(ret[1]), j \in 1..Len(ret[1]) : ret[1][i] = ret[1][j] => i = j
        /\ ret[1] = FirstSelected(args[1], args[2], Len(args[2]))

====
